---- MODULE Spec2Model ----
(***************************************************************************)
(* Model of the Archon multi-user authorization layer:                     *)
(*   - user_profiles and the role-management functions                     *)
(*     (migration/multi_user_auth.sql),                                    *)
(*   - the row-level-security helper functions and policies                *)
(*     (migration/update_rls_policies.sql),                                *)
(*   - the client permission helpers (contexts/AuthContext.tsx).           *)
(* SQL expressions are evaluated in three-valued logic; a condition that   *)
(* evaluates to NULL is not taken (plpgsql IF, policy USING / WITH CHECK). *)
(***************************************************************************)
EXTENDS Integers, FiniteSets, Sequences, TLC

VARIABLES
    profiles,   \* user_profiles: id -> [present, role, active]
    session,    \* auth.uid() of the request being served (NULL: none)
    last,       \* outcome of the last role-management call
    rows,       \* the protected tables: row id -> row (or NoRow)
    decision,   \* row-level decisions taken for the last request on a row
    txn,        \* concurrent sessions: process -> state of its function call
    start,      \* user_profiles as they were when the concurrent calls began
    client      \* the AuthProvider of one browser tab and what it rendered

vars == <<profiles, session, last, rows, decision, txn, start, client>>

----------------------------------------------------------------------------
(* Values *)

NULL == "NULL"

Users == {"u1", "u2", "u3"}

\* CHECK (role IN ('admin', 'user', 'viewer', 'guest'))
Roles == {"admin", "user", "viewer", "guest"}

\* a text value outside the enumeration, to exercise the validation
BadRole == "superuser"

Uids == Users \cup {NULL}

NoProfile == [present |-> FALSE, role |-> NULL, active |-> FALSE]

\* SQL booleans
T3 == "true"
F3 == "false"
N3 == "null"

Bool3(b) == IF b THEN T3 ELSE F3

\* a = b in SQL: NULL when either side is NULL
Eq3(a, b) == IF a = NULL \/ b = NULL THEN N3 ELSE Bool3(a = b)

Not3(x) == IF x = T3 THEN F3 ELSE IF x = F3 THEN T3 ELSE N3

Or3(x, y) ==
    IF x = T3 \/ y = T3 THEN T3
    ELSE IF x = F3 /\ y = F3 THEN F3
    ELSE N3

And3(x, y) ==
    IF x = F3 \/ y = F3 THEN F3
    ELSE IF x = T3 /\ y = T3 THEN T3
    ELSE N3

\* a IN (list of non-null literals)
In3(a, S) == IF a = NULL THEN N3 ELSE Bool3(a \in S)

\* a IS NULL
IsNull3(a) == Bool3(a = NULL)

\* how IF, USING and WITH CHECK read a condition: only TRUE passes
IsTrue(x) == x = T3

----------------------------------------------------------------------------
(* user_profiles and its helper functions *)

ProfileRows == {u \in Users : profiles[u].present}

ActiveAdmins(p) ==
    {u \in Users : p[u].present /\ p[u].role = "admin" /\ p[u].active}

\* SELECT COUNT(*) FROM user_profiles WHERE role = 'admin' AND is_active = true
ActiveAdminCount == Cardinality(ActiveAdmins(profiles))

\* has_role without the is_active filter
has_role_any_status(uid, required_role) ==
    Bool3(\E u \in ProfileRows :
            /\ IsTrue(Eq3(u, uid))
            /\ IsTrue(Eq3(profiles[u].role, required_role)))

\* has_role(required_role): EXISTS (SELECT 1 FROM user_profiles WHERE
\* id = auth.uid() AND role = required_role AND is_active = true)
has_role(uid, required_role) ==
    Bool3(\E u \in ProfileRows :
            /\ IsTrue(Eq3(u, uid))
            /\ IsTrue(Eq3(profiles[u].role, required_role))
            /\ profiles[u].active)

is_admin(uid) == has_role(uid, "admin")

\* current_user_role without the is_active filter
current_user_role_any_status(uid) ==
    IF uid \in ProfileRows THEN profiles[uid].role ELSE NULL

\* current_user_role(): SELECT role FROM user_profiles WHERE id = auth.uid()
\* AND is_active = true
current_user_role(uid) ==
    IF uid \in ProfileRows /\ profiles[uid].active
    THEN profiles[uid].role
    ELSE NULL

\* (SELECT role FROM user_profiles WHERE id = target_user_id)
RoleOfTarget(target) ==
    IF target \in ProfileRows THEN profiles[target].role ELSE NULL

\* (SELECT role FROM user_profiles WHERE id = target_user_id AND is_active = true)
RoleOfActiveTarget(target) ==
    IF target \in ProfileRows /\ profiles[target].active
    THEN profiles[target].role
    ELSE NULL

----------------------------------------------------------------------------
(* Protected tables and the row-level-security helper functions *)

MaxRows == 2

RowIds == 1..MaxRows

RootTables == {"sources", "code_examples", "projects", "prompts"}

SourceChildren == {"crawled_pages"}

ProjectChildren == {"tasks", "project_sources", "document_versions"}

Tables == RootTables \cup SourceChildren \cup ProjectChildren

\* the table a row's source_id / project_id points into
ParentTable(t) ==
    IF t \in SourceChildren THEN "sources"
    ELSE IF t \in ProjectChildren THEN "projects"
    ELSE "none"

\* owner: user_id; assignee: assigned_user_id (archon_tasks only);
\* parent: source_id / project_id as a row id (0: the table has none)
NoRow == [table |-> "none", owner |-> NULL, assignee |-> NULL, parent |-> 0]

NoRows == [i \in RowIds |-> NoRow]

Present(id) == id \in RowIds /\ rows[id] # NoRow

\* user_can_view without the viewer role
user_can_view_no_viewer(uid, resource_user_id, assigned_user_id) ==
    Or3(Or3(Or3(Eq3(uid, resource_user_id),
                Eq3(uid, assigned_user_id)),
            In3(current_user_role(uid), {"admin"})),
        IsNull3(resource_user_id))

\* user_can_view(resource_user_id, assigned_user_id)
user_can_view(uid, resource_user_id, assigned_user_id) ==
    Or3(Or3(Or3(Eq3(uid, resource_user_id),
                Eq3(uid, assigned_user_id)),
            In3(current_user_role(uid), {"admin", "viewer"})),
        IsNull3(resource_user_id))

\* user_can_edit reading the stored role of an inactive subject too
user_can_edit_any_status(uid, resource_user_id, assigned_user_id) ==
    Or3(Or3(Eq3(uid, resource_user_id),
            Eq3(uid, assigned_user_id)),
        Eq3(current_user_role_any_status(uid), "admin"))

\* user_can_edit(resource_user_id, assigned_user_id)
user_can_edit(uid, resource_user_id, assigned_user_id) ==
    Or3(Or3(Eq3(uid, resource_user_id),
            Eq3(uid, assigned_user_id)),
        Eq3(current_user_role(uid), "admin"))

\* EXISTS (SELECT 1 FROM <parent table> WHERE id = r.parent
\*         AND user_can_view(<parent>.user_id))
ParentViewable(uid, r) ==
    /\ Present(r.parent)
    /\ rows[r.parent].table = ParentTable(r.table)
    /\ IsTrue(user_can_view(uid, rows[r.parent].owner, NULL))

\* EXISTS (SELECT 1 FROM <parent table> WHERE id = r.parent
\*         AND user_can_edit(<parent>.user_id))
ParentEditable(uid, r) ==
    /\ Present(r.parent)
    /\ rows[r.parent].table = ParentTable(r.table)
    /\ IsTrue(user_can_edit(uid, rows[r.parent].owner, NULL))

\* EXISTS (SELECT 1 FROM archon_tasks WHERE project_id = archon_projects.id
\*         AND assigned_user_id = auth.uid())
AssignedInProject(uid, id) ==
    \E t \in RowIds :
        /\ rows[t].table = "tasks"
        /\ rows[t].parent = id
        /\ IsTrue(Eq3(rows[t].assignee, uid))

\* FOR SELECT ... USING, per table, for a session that is not the service role
SelectPolicy(uid, id) ==
    LET r == rows[id] IN
    CASE r.table \in {"sources", "code_examples", "prompts"} ->
            IsTrue(user_can_view(uid, r.owner, NULL))
      [] r.table = "projects" ->
            IsTrue(user_can_view(uid, r.owner, NULL)) \/ AssignedInProject(uid, id)
      [] r.table = "tasks" ->
            IsTrue(user_can_view(uid, r.owner, r.assignee)) \/ ParentViewable(uid, r)
      [] r.table \in {"crawled_pages", "project_sources", "document_versions"} ->
            IsTrue(user_can_view(uid, r.owner, NULL)) \/ ParentViewable(uid, r)
      [] OTHER -> FALSE

\* FOR INSERT ... WITH CHECK on the new row r
InsertCheck(uid, r) ==
    CASE r.table \in {"sources", "code_examples"} ->
            IsTrue(Or3(Eq3(uid, r.owner), IsNull3(r.owner)))
      [] r.table \in {"projects", "prompts"} ->
            IsTrue(Eq3(uid, r.owner))
      [] r.table \in SourceChildren \cup ProjectChildren ->
            ParentEditable(uid, r)
      [] OTHER -> FALSE

\* FOR UPDATE ... USING on row r; the same expression is the WITH CHECK of
\* the new row (written out in the policy, or the default when it is left out)
UpdatePolicy(uid, r) ==
    CASE r.table \in RootTables ->
            IsTrue(user_can_edit(uid, r.owner, NULL))
      [] r.table = "tasks" ->
            IsTrue(user_can_edit(uid, r.owner, r.assignee)) \/ ParentEditable(uid, r)
      [] r.table \in {"crawled_pages", "project_sources"} ->
            IsTrue(user_can_edit(uid, r.owner, NULL)) \/ ParentEditable(uid, r)
      [] OTHER -> FALSE   \* archon_document_versions has no UPDATE policy

\* FOR DELETE ... USING on row r
DeletePolicy(uid, r) ==
    CASE r.table \in RootTables ->
            IsTrue(user_can_edit(uid, r.owner, NULL))
      [] r.table \in {"tasks", "crawled_pages", "project_sources"} ->
            IsTrue(user_can_edit(uid, r.owner, NULL)) \/ ParentEditable(uid, r)
      [] r.table = "document_versions" ->
            IsTrue(is_admin(uid))
      [] OTHER -> FALSE

\* sync_crawled_pages_user_id, sync_tasks_user_id, sync_project_sources_user_id:
\* AFTER UPDATE OF user_id on a source or a project, row id now owned by o
SyncChildren(rs, id, o) ==
    [c \in RowIds |->
        IF rs[c].parent = id /\ rs[c].table # "none"
           /\ ParentTable(rs[c].table) = rs[id].table
           /\ (rs[c].table \in {"crawled_pages", "project_sources"}
               \/ (rs[c].table = "tasks" /\ rs[c].assignee = NULL))
        THEN [rs[c] EXCEPT !.owner = o]
        ELSE rs[c]]

----------------------------------------------------------------------------
(* The client's permission helper *)

ResourceKinds == {"knowledge", "projects", "tasks", "prompts", "users"}

Actions == {"create", "read", "update", "write", "delete"}

\* hasPermission without the admin branch
hasPermissionNoAdminBranch(pr, resource, action) ==
    IF ~pr.present THEN FALSE
    ELSE IF pr.role = "user" THEN action \in {"create", "read", "update"}
    ELSE IF pr.role = "viewer" THEN action = "read"
    ELSE IF pr.role = "guest"
         THEN action = "read" /\ resource \in {"knowledge", "projects"}
    ELSE FALSE

\* hasPermission(resource, action) with the loaded profile pr (NoProfile: null)
hasPermission(pr, resource, action) ==
    IF ~pr.present THEN FALSE
    ELSE IF pr.role = "admin" THEN TRUE
    ELSE IF pr.role = "user" THEN action \in {"create", "read", "update"}
    ELSE IF pr.role = "viewer" THEN action = "read"
    ELSE IF pr.role = "guest"
         THEN action = "read" /\ resource \in {"knowledge", "projects"}
    ELSE FALSE

\* hasRole(role): profile?.role === role
hasRole(pr, role) == pr.present /\ pr.role = role

\* isAdmin(): profile?.role === 'admin'
isAdmin(pr) == pr.present /\ pr.role = "admin"

\* no ProtectedRoute rendered since the provider's state last changed
NoRender ==
    [requireAuth |-> FALSE, requiredRole |-> NULL, resource |-> NULL,
     action |-> NULL, fallback |-> FALSE, outcome |-> "none"]

\* the provider before it is mounted: useState(null), useState(true)
NoClient ==
    [user |-> NULL, profile |-> NoProfile, loading |-> TRUE,
     getSession |-> "pending", fetches |-> {}, signOut |-> "idle",
     ended |-> FALSE, rendered |-> NoRender]

----------------------------------------------------------------------------
(* Role management functions, statement by statement *)

\* the admin check reading the stored role of a deactivated caller too
NotAdminRaisedStoredRole(uid) == ~IsTrue(has_role_any_status(uid, "admin"))

\* IF NOT public.is_admin() THEN RAISE
NotAdminRaised(uid) == IsTrue(Not3(is_admin(uid)))

\* the validation with a NULL role rejected too
InvalidRoleRaisedStrict(new_role) == ~IsTrue(In3(new_role, Roles))

\* IF new_role NOT IN ('admin', 'user', 'viewer', 'guest') THEN RAISE
InvalidRoleRaised(new_role) == IsTrue(Not3(In3(new_role, Roles)))

\* the last-admin guard of update_user_role, never raising
UpdateLastAdminRaisedNever(target, new_role) == FALSE

\* IF new_role != 'admin' AND (SELECT COUNT(*) ...) = 1
\*    AND (SELECT role ... WHERE id = target_user_id) = 'admin' THEN RAISE
UpdateLastAdminRaised(target, new_role) ==
    IsTrue(And3(And3(Not3(Eq3(new_role, "admin")),
                     Bool3(ActiveAdminCount = 1)),
                Eq3(RoleOfTarget(target), "admin")))

\* the last-admin guard of deactivate_user, never raising
DeactivateLastAdminRaisedNever(target) == FALSE

\* IF (SELECT COUNT(*) ...) = 1 AND (SELECT role ... WHERE id = target_user_id
\*    AND is_active = true) = 'admin' THEN RAISE
DeactivateLastAdminRaised(target) ==
    IsTrue(And3(Bool3(ActiveAdminCount = 1),
                Eq3(RoleOfActiveTarget(target), "admin")))

\* the UPDATE of update_user_role flipping is_active as well
SetRoleAndFlipActive(p, target, new_role) ==
    IF target \in Users /\ p[target].present
    THEN [p EXCEPT ![target].role = new_role,
                   ![target].active = ~p[target].active]
    ELSE p

\* UPDATE user_profiles SET role = new_role WHERE id = target_user_id
\* (the column's CHECK constraint passes a NULL role)
SetRole(p, target, new_role) ==
    IF target \in Users /\ p[target].present
    THEN [p EXCEPT ![target].role = new_role]
    ELSE p

\* UPDATE user_profiles SET is_active = false WHERE id = target_user_id
SetInactive(p, target) ==
    IF target \in Users /\ p[target].present
    THEN [p EXCEPT ![target].active = FALSE]
    ELSE p

\* RETURN FOUND
Found(target) == IF target \in ProfileRows THEN "true" ELSE "false"

\* update_user_role(target_user_id, new_role): what the call ends with
update_user_role_result(uid, target, new_role) ==
    IF NotAdminRaised(uid) THEN "not_admin"
    ELSE IF InvalidRoleRaised(new_role) THEN "invalid_role"
    ELSE IF UpdateLastAdminRaised(target, new_role) THEN "last_admin"
    ELSE Found(target)

\* deactivate_user(target_user_id): what the call ends with
deactivate_user_result(uid, target) ==
    IF NotAdminRaised(uid) THEN "not_admin"
    ELSE IF DeactivateLastAdminRaised(target) THEN "last_admin"
    ELSE Found(target)

Raised(result) ==
    result \in {"not_admin", "invalid_role", "last_admin", "no_user", "aborted"}

\* the last function call: target is target_user_id or from_user_id, to is
\* to_user_id; again: the call repeats the call before it; moved: the number
\* of rows that had the owner from_user_id when transfer_user_data was called
NoCall ==
    [op |-> "none", target |-> NULL, role |-> NULL, to |-> NULL,
     result |-> "none", again |-> FALSE, moved |-> 0]

Call(op, target, role, to, result, moved) ==
    [op |-> op, target |-> target, role |-> role, to |-> to,
     result |-> result,
     again |-> (last.op = op /\ last.target = target /\ last.role = role
                /\ last.to = to),
     moved |-> moved]

NoDecision ==
    [asked |-> FALSE, id |-> 0, owner |-> NULL, assignee |-> NULL,
     view |-> N3, edit |-> N3, admin |-> N3,
     select |-> FALSE, update |-> FALSE, delete |-> FALSE]

----------------------------------------------------------------------------
(* Sequential requests against user_profiles *)

\* a request arrives bearing a subject identity
SetSession(u) ==
    /\ u \in Uids
    /\ u # session
    /\ session' = u
    /\ last' = NoCall
    /\ decision' = NoDecision
    /\ UNCHANGED <<profiles, rows, txn, start, client>>

\* every registered subject made a user
NewUserRoleAlwaysUser(p) == "user"

\* the role handle_new_user gives: CASE WHEN (SELECT COUNT(*) FROM
\* public.user_profiles) = 0 THEN 'admin' ELSE 'user' END
NewUserRole(p) ==
    IF Cardinality({u \in Users : p[u].present}) = 0 THEN "admin" ELSE "user"

\* handle_new_user(): AFTER INSERT ON auth.users
HandleNewUser(u) ==
    /\ ~profiles[u].present
    /\ profiles' = [profiles EXCEPT ![u] =
            [present |-> TRUE,
             role |-> NewUserRole(profiles),
             active |-> TRUE]]
    /\ last' = Call("handle_new_user", u, NULL, NULL, "true", 0)
    /\ UNCHANGED <<session, rows, decision, txn, start, client>>

UpdateUserRole(target, new_role) ==
    LET result == update_user_role_result(session, target, new_role) IN
    /\ last' = Call("update_user_role", target, new_role, NULL, result, 0)
    /\ profiles' = IF Raised(result) THEN profiles
                   ELSE SetRole(profiles, target, new_role)
    /\ UNCHANGED <<session, rows, decision, txn, start, client>>

DeactivateUser(target) ==
    LET result == deactivate_user_result(session, target) IN
    /\ last' = Call("deactivate_user", target, NULL, NULL, result, 0)
    /\ profiles' = IF Raised(result) THEN profiles
                   ELSE SetInactive(profiles, target)
    /\ UNCHANGED <<session, rows, decision, txn, start, client>>

EmptyProfiles == [u \in Users |-> NoProfile]

NoTxn == [pc |-> "idle", op |-> "none", uid |-> NULL, target |-> NULL,
          role |-> NULL, result |-> "none"]

Procs == {"p1", "p2"}

Init ==
    /\ profiles = EmptyProfiles
    /\ session = NULL
    /\ last = NoCall
    /\ rows = NoRows
    /\ decision = NoDecision
    /\ txn = [p \in Procs |-> NoTxn]
    /\ start = EmptyProfiles
    /\ client = NoClient

Next ==
    \/ \E u \in Uids : SetSession(u)
    \/ \E u \in Users : HandleNewUser(u)
    \/ \E t \in Users, r \in Roles \cup {NULL, BadRole} : UpdateUserRole(t, r)
    \/ \E t \in Users : DeactivateUser(t)

Spec == Init /\ [][Next]_vars

----------------------------------------------------------------------------
(* Concurrent calls of the role management functions.  Two database        *)
(* sessions each issue one call; under READ COMMITTED every statement of   *)
(* the function body reads the rows committed when it runs, and no         *)
(* statement of the bodies takes a lock before the UPDATE.  The UPDATE and *)
(* the commit that ends the call are one step.                             *)

\* the call is issued: SELECT update_user_role(...) / deactivate_user(...)
BeginCall(p, op, uid, target, new_role) ==
    /\ txn[p].pc = "idle"
    /\ txn' = [txn EXCEPT ![p] =
            [pc |-> "check_admin", op |-> op, uid |-> uid, target |-> target,
             role |-> new_role, result |-> "none"]]
    /\ UNCHANGED <<profiles, session, last, rows, decision, start, client>>

\* IF NOT public.is_admin() THEN RAISE; then the validation of new_role
StepCheckAdmin(p) ==
    LET t == txn[p] IN
    /\ t.pc = "check_admin"
    /\ txn' = [txn EXCEPT ![p] =
            IF NotAdminRaised(t.uid)
            THEN [t EXCEPT !.pc = "raised", !.result = "not_admin"]
            ELSE IF t.op = "update_user_role" /\ InvalidRoleRaised(t.role)
            THEN [t EXCEPT !.pc = "raised", !.result = "invalid_role"]
            ELSE [t EXCEPT !.pc = "check_last_admin"]]
    /\ UNCHANGED <<profiles, session, last, rows, decision, start, client>>

\* the IF that counts the active admins and reads the target's role
StepCheckLastAdmin(p) ==
    LET t == txn[p]
        raise == IF t.op = "update_user_role"
                 THEN UpdateLastAdminRaised(t.target, t.role)
                 ELSE DeactivateLastAdminRaised(t.target)
    IN
    /\ t.pc = "check_last_admin"
    /\ txn' = [txn EXCEPT ![p] =
            IF raise
            THEN [t EXCEPT !.pc = "raised", !.result = "last_admin"]
            ELSE [t EXCEPT !.pc = "update"]]
    /\ UNCHANGED <<profiles, session, last, rows, decision, start, client>>

\* the UPDATE of user_profiles, RETURN FOUND, commit
StepUpdate(p) ==
    LET t == txn[p] IN
    /\ t.pc = "update"
    /\ profiles' = IF t.op = "update_user_role"
                   THEN SetRole(profiles, t.target, t.role)
                   ELSE SetInactive(profiles, t.target)
    /\ txn' = [txn EXCEPT ![p] =
            [t EXCEPT !.pc = "done", !.result = Found(t.target)]]
    /\ UNCHANGED <<session, last, rows, decision, start, client>>

ActiveProfile(r) == [present |-> TRUE, role |-> r, active |-> TRUE]

InitConc ==
    /\ profiles \in [Users -> {ActiveProfile(r) : r \in {"admin", "user"}}]
    /\ ActiveAdminCount >= 1
    /\ start = profiles
    /\ client = NoClient
    /\ session = NULL
    /\ last = NoCall
    /\ rows = NoRows
    /\ decision = NoDecision
    /\ txn = [p \in Procs |-> NoTxn]

NextConc ==
    \/ \E p \in Procs, uid \in Users, t \in Users, r \in Roles \cup {NULL} :
            BeginCall(p, "update_user_role", uid, t, r)
    \/ \E p \in Procs, uid \in Users, t \in Users :
            BeginCall(p, "deactivate_user", uid, t, NULL)
    \/ \E p \in Procs : StepCheckAdmin(p)
    \/ \E p \in Procs : StepCheckLastAdmin(p)
    \/ \E p \in Procs : StepUpdate(p)

SpecConc == InitConc /\ [][NextConc]_vars

----------------------------------------------------------------------------
(* Requests of end-user sessions against the protected tables.  The service *)
(* role, which bypasses every policy, is not a session of this model.       *)

\* the rows a new row may point to: its parent exists, in the parent table
ValidRow(r) ==
    /\ r.table \in Tables
    /\ r.owner \in ProfileRows \cup {NULL}
    /\ r.assignee \in (IF r.table = "tasks" THEN ProfileRows \cup {NULL} ELSE {NULL})
    /\ IF ParentTable(r.table) = "none"
       THEN r.parent = 0
       ELSE Present(r.parent) /\ rows[r.parent].table = ParentTable(r.table)

\* INSERT INTO <table>: accepted when the WITH CHECK of the table passes
InsertRow(id, r) ==
    /\ ~Present(id)
    /\ ValidRow(r)
    /\ InsertCheck(session, r)
    /\ rows' = [rows EXCEPT ![id] = r]
    /\ decision' = NoDecision
    /\ UNCHANGED <<profiles, session, last, txn, start, client>>

\* UPDATE <table> SET user_id = o WHERE id = ...: USING on the old row, WITH
\* CHECK on the new one, then the sync triggers of sources and projects
UpdateOwner(id, o) ==
    LET new == [rows[id] EXCEPT !.owner = o] IN
    /\ Present(id)
    /\ o \in ProfileRows \cup {NULL}
    /\ UpdatePolicy(session, rows[id])
    /\ UpdatePolicy(session, new)
    /\ rows' = IF new.table \in {"sources", "projects"}
               THEN SyncChildren([rows EXCEPT ![id] = new], id, o)
               ELSE [rows EXCEPT ![id] = new]
    /\ decision' = NoDecision
    /\ UNCHANGED <<profiles, session, last, txn, start, client>>

\* UPDATE archon_tasks SET assigned_user_id = a WHERE id = ...
UpdateAssignee(id, a) ==
    LET new == [rows[id] EXCEPT !.assignee = a] IN
    /\ Present(id)
    /\ rows[id].table = "tasks"
    /\ a \in ProfileRows \cup {NULL}
    /\ a # rows[id].assignee
    /\ UpdatePolicy(session, rows[id])
    /\ UpdatePolicy(session, new)
    /\ rows' = [rows EXCEPT ![id] = new]
    /\ decision' = NoDecision
    /\ UNCHANGED <<profiles, session, last, txn, start, client>>

\* DELETE FROM <table> WHERE id = ...; a row still referenced by a child row
\* is left to the base schema's foreign keys and is not deleted here
DeleteRow(id) ==
    /\ Present(id)
    /\ \A c \in RowIds : rows[c].parent # id
    /\ DeletePolicy(session, rows[id])
    /\ rows' = [rows EXCEPT ![id] = NoRow]
    /\ decision' = NoDecision
    /\ UNCHANGED <<profiles, session, last, txn, start, client>>

\* a request on row id: the helper functions on the row's own owner and
\* assignee, and what the table's policies decide for the session
Request(id) ==
    LET r == rows[id] IN
    /\ Present(id)
    /\ decision' =
            [asked |-> TRUE, id |-> id,
             owner |-> r.owner, assignee |-> r.assignee,
             view |-> user_can_view(session, r.owner, r.assignee),
             edit |-> user_can_edit(session, r.owner, r.assignee),
             admin |-> is_admin(session),
             select |-> SelectPolicy(session, id),
             update |-> UpdatePolicy(session, r),
             delete |-> DeletePolicy(session, r)]
    /\ UNCHANGED <<profiles, session, last, rows, txn, start, client>>

InactiveProfile(r) == [present |-> TRUE, role |-> r, active |-> FALSE]

\* u1 holds any role, active or deactivated; u2 is a user, u3 an admin
InitRLS ==
    /\ profiles \in
            {[u \in Users |->
                IF u = "u1" THEN p1
                ELSE IF u = "u2" THEN ActiveProfile("user")
                ELSE ActiveProfile("admin")] :
             p1 \in {ActiveProfile(r) : r \in Roles}
                    \cup {InactiveProfile(r) : r \in Roles}}
    /\ session = "u1"
    /\ last = NoCall
    /\ rows = NoRows
    /\ decision = NoDecision
    /\ txn = [p \in Procs |-> NoTxn]
    /\ start = EmptyProfiles
    /\ client = NoClient

NextRLS ==
    \/ \E u \in Users : SetSession(u)
    \/ \E id \in RowIds, t \in Tables, o \in Uids, a \in Uids,
          par \in RowIds \cup {0} :
            InsertRow(id, [table |-> t, owner |-> o, assignee |-> a,
                           parent |-> par])
    \/ \E id \in RowIds, o \in Uids : UpdateOwner(id, o)
    \/ \E id \in RowIds, a \in Uids : UpdateAssignee(id, a)
    \/ \E id \in RowIds : DeleteRow(id)
    \/ \E id \in RowIds : Request(id)

SpecRLS == InitRLS /\ [][NextRLS]_vars

----------------------------------------------------------------------------
(* The helper functions on their own: any subject, any owner and assignee *)

\* SELECT user_can_view(o, a), user_can_edit(o, a), is_admin() in the session
CheckAccess(o, a) ==
    /\ decision' =
            [asked |-> TRUE, id |-> 0, owner |-> o, assignee |-> a,
             view |-> user_can_view(session, o, a),
             edit |-> user_can_edit(session, o, a),
             admin |-> is_admin(session),
             select |-> FALSE, update |-> FALSE, delete |-> FALSE]
    /\ UNCHANGED <<profiles, session, last, rows, txn, start, client>>

AnyProfile ==
    {NoProfile} \cup {ActiveProfile(r) : r \in Roles \cup {NULL}}
                \cup {InactiveProfile(r) : r \in Roles \cup {NULL}}

InitAccess ==
    /\ profiles \in [Users -> AnyProfile]
    /\ session = NULL
    /\ last = NoCall
    /\ rows = NoRows
    /\ decision = NoDecision
    /\ txn = [p \in Procs |-> NoTxn]
    /\ start = EmptyProfiles
    /\ client = NoClient

NextAccess ==
    \/ \E u \in Uids : SetSession(u)
    \/ \E o \in Uids, a \in Uids : CheckAccess(o, a)

SpecAccess == InitAccess /\ [][NextAccess]_vars

----------------------------------------------------------------------------
(* Deactivation of a subject whose session stays open *)

\* every subject is registered and active, with any role; an admin exists
InitDeactivation ==
    /\ profiles \in {p \in [Users -> {ActiveProfile(r) : r \in Roles}] :
                        ActiveAdmins(p) # {}}
    /\ session = NULL
    /\ last = NoCall
    /\ rows = NoRows
    /\ decision = NoDecision
    /\ txn = [p \in Procs |-> NoTxn]
    /\ start = EmptyProfiles
    /\ client = NoClient

NextDeactivation ==
    \/ \E u \in Users : SetSession(u)
    \/ \E t \in Users : DeactivateUser(t)
    \/ \E o \in Uids, a \in Uids : CheckAccess(o, a)

SpecDeactivation == InitDeactivation /\ [][NextDeactivation]_vars

----------------------------------------------------------------------------
(* transfer_user_data, statement by statement *)

\* the tables in the order of the function's UPDATE statements
TransferTables ==
    <<"sources", "crawled_pages", "code_examples", "projects", "tasks",
      "project_sources", "document_versions", "prompts">>

\* the same statements without the one on archon_tasks
TransferTablesNoTasks ==
    <<"sources", "crawled_pages", "code_examples", "projects",
      "project_sources", "document_versions", "prompts">>

\* the row-level AFTER UPDATE OF user_id triggers of the updated rows ids
RECURSIVE SyncEach(_, _, _)
SyncEach(rs, ids, o) ==
    IF ids = {} THEN rs
    ELSE LET id == CHOOSE i \in ids : TRUE IN
         SyncEach(SyncChildren(rs, id, o), ids \ {id}, o)

\* UPDATE <t> SET user_id = to_user_id WHERE user_id = from_user_id
UpdateOwnerWhere(rs, t, from, to) ==
    LET hit == {i \in RowIds : rs[i].table = t /\ rs[i].owner = from}
        upd == [i \in RowIds |->
                    IF i \in hit THEN [rs[i] EXCEPT !.owner = to] ELSE rs[i]]
    IN IF t \in {"sources", "projects"} THEN SyncEach(upd, hit, to) ELSE upd

\* the UPDATE statements from the k-th on
RECURSIVE TransferSteps(_, _, _, _, _)
TransferSteps(rs, tables, k, from, to) ==
    IF k > Len(tables) THEN rs
    ELSE TransferSteps(UpdateOwnerWhere(rs, tables[k], from, to),
                       tables, k + 1, from, to)

\* the function's UPDATE statements, archon_tasks left out
TransferAllButTasks(rs, from, to) ==
    TransferSteps(rs, TransferTablesNoTasks, 1, from, to)

\* the function's UPDATE statements, all of them
TransferAll(rs, from, to) == TransferSteps(rs, TransferTables, 1, from, to)

\* IF NOT EXISTS (... id = from_user_id) OR NOT EXISTS (... id = to_user_id)
NoUserRaised(from, to) == ~(from \in ProfileRows /\ to \in ProfileRows)

\* transfer_user_data(from_user_id, to_user_id): what the call ends with;
\* fail_at > 0: the fail_at-th UPDATE statement raises (lock timeout,
\* cancellation), which aborts the function and undoes its statements
transfer_user_data_result(uid, from, to, fail_at) ==
    IF NotAdminRaised(uid) THEN "not_admin"
    ELSE IF NoUserRaised(from, to) THEN "no_user"
    ELSE IF fail_at > 0 THEN "aborted"
    ELSE "true"

TransferUserData(from, to, fail_at) ==
    LET result == transfer_user_data_result(session, from, to, fail_at) IN
    /\ fail_at \in 0..Len(TransferTables)
    /\ last' = Call("transfer_user_data", from, NULL, to, result,
                    Cardinality({i \in RowIds : Present(i)
                                                /\ rows[i].owner = from}))
    /\ rows' = IF Raised(result) THEN rows ELSE TransferAll(rows, from, to)
    /\ UNCHANGED <<profiles, session, decision, txn, start, client>>

\* owners a row may carry: user_id REFERENCES user_profiles(id), or null
SeedOwners == ProfileRows \cup {NULL}

\* a source or a project in row 1 and, in row 2, one of its child rows or a
\* row of a table without parent
SeedRows ==
    {[i \in RowIds |-> IF i = 1 THEN r1 ELSE IF i = 2 THEN r2 ELSE NoRow] :
        r1 \in [table : {"sources", "projects"}, owner : SeedOwners,
                assignee : {NULL}, parent : {0}],
        r2 \in [table : Tables, owner : SeedOwners,
                assignee : SeedOwners, parent : {0, 1}]}

\* the seeds whose second row is well-formed: only a task has an assignee,
\* and a child row points to a first row of its parent table
ValidSeeds ==
    {rs \in SeedRows :
        /\ rs[2].table # "tasks" => rs[2].assignee = NULL
        /\ IF ParentTable(rs[2].table) = "none"
           THEN rs[2].parent = 0
           ELSE rs[2].parent = 1 /\ rs[1].table = ParentTable(rs[2].table)}

\* u1 is a user; u2 is a user or is not registered; u3 is an admin
InitTransfer ==
    /\ profiles \in
            {[u \in Users |->
                IF u = "u1" THEN ActiveProfile("user")
                ELSE IF u = "u2" THEN p2
                ELSE ActiveProfile("admin")] :
             p2 \in {NoProfile, ActiveProfile("user")}}
    /\ session = "u3"
    /\ last = NoCall
    /\ rows \in ValidSeeds
    /\ decision = NoDecision
    /\ txn = [p \in Procs |-> NoTxn]
    /\ start = EmptyProfiles
    /\ client = NoClient

NextTransfer ==
    \/ \E u \in Users : SetSession(u)
    \/ \E from \in Users, to \in Users, fail_at \in 0..Len(TransferTables) :
            TransferUserData(from, to, fail_at)

SpecTransfer == InitTransfer /\ [][NextTransfer]_vars

----------------------------------------------------------------------------
(* The admin-only functions together, on a project and one of its tasks *)

\* a project of u1 with a task owned by u1 or u2, assigned to u2 or to nobody
AdminSeeds ==
    {rs \in ValidSeeds :
        /\ rs[1].table = "projects" /\ rs[1].owner = "u1"
        /\ rs[2].table = "tasks" /\ rs[2].owner \in {"u1", "u2"}
        /\ rs[2].assignee \in {NULL, "u2"}}

\* u1 is a viewer or a deactivated admin; u2 is a user, u3 an admin
InitAdmin ==
    /\ profiles \in
            {[u \in Users |->
                IF u = "u1" THEN p1
                ELSE IF u = "u2" THEN ActiveProfile("user")
                ELSE ActiveProfile("admin")] :
             p1 \in {ActiveProfile("viewer"), InactiveProfile("admin")}}
    /\ session = "u1"
    /\ last = NoCall
    /\ rows \in AdminSeeds
    /\ decision = NoDecision
    /\ txn = [p \in Procs |-> NoTxn]
    /\ start = EmptyProfiles
    /\ client = NoClient

NextAdmin ==
    \/ \E u \in Users : SetSession(u)
    \/ \E t \in Users, r \in {"admin", "user", BadRole} : UpdateUserRole(t, r)
    \/ \E t \in Users : DeactivateUser(t)
    \/ \E from \in Users, to \in Users, fail_at \in {0, 1} :
            TransferUserData(from, to, fail_at)

SpecAdmin == InitAdmin /\ [][NextAdmin]_vars

----------------------------------------------------------------------------
(* UPDATE statements of end-user sessions on user_profiles *)

\* "Users can update own profile": USING (auth.uid() = id)
OwnProfileUsing(uid, target) == IsTrue(Eq3(uid, target))

\* its WITH CHECK without the comparison of the role
OwnProfileCheckNoRole(uid, target, new_role) == IsTrue(Eq3(uid, target))

\* WITH CHECK (auth.uid() = id AND
\*             role = (SELECT role FROM user_profiles WHERE id = auth.uid()))
\* the subquery reads the row as it is before the statement
OwnProfileCheck(uid, target, new_role) ==
    IsTrue(And3(Eq3(uid, target), Eq3(new_role, RoleOfTarget(uid))))

\* "Admins can update all profiles": USING (EXISTS (SELECT 1 FROM
\* user_profiles WHERE id = auth.uid() AND role = 'admin' AND is_active)),
\* which is the check of the new row as well, no WITH CHECK being given
AdminProfileUsing(uid) == uid \in ActiveAdmins(profiles)

\* what UPDATE user_profiles SET role = .., is_active = .. WHERE id = target
\* ends with: no row passes USING, or the new row fails the check, or done
update_profile_result(uid, target, new_role) ==
    IF ~(target \in ProfileRows
         /\ (OwnProfileUsing(uid, target) \/ AdminProfileUsing(uid)))
    THEN "no_row"
    ELSE IF ~(OwnProfileCheck(uid, target, new_role) \/ AdminProfileUsing(uid))
    THEN "check_violation"
    ELSE "true"

UpdateProfile(target, new_role, new_active) ==
    LET result == update_profile_result(session, target, new_role) IN
    /\ new_role \in Roles \cup {NULL}
    /\ last' = Call("update_profile", target, new_role, NULL, result, 0)
    /\ profiles' = IF result = "true"
                   THEN [profiles EXCEPT ![target].role = new_role,
                                         ![target].active = new_active]
                   ELSE profiles
    /\ UNCHANGED <<session, rows, decision, txn, start, client>>

\* u1 is a guest or a deactivated admin; u2 is a user, u3 an admin
InitProfiles ==
    /\ profiles \in
            {[u \in Users |->
                IF u = "u1" THEN p1
                ELSE IF u = "u2" THEN ActiveProfile("user")
                ELSE ActiveProfile("admin")] :
             p1 \in {ActiveProfile("guest"), InactiveProfile("admin")}}
    /\ session = "u1"
    /\ last = NoCall
    /\ rows = NoRows
    /\ decision = NoDecision
    /\ txn = [p \in Procs |-> NoTxn]
    /\ start = EmptyProfiles
    /\ client = NoClient

NextProfiles ==
    \/ \E u \in Users : SetSession(u)
    \/ \E t \in Users, r \in {"admin", "user", NULL}, act \in BOOLEAN :
            UpdateProfile(t, r, act)
    \/ \E t \in Users, r \in {"admin", "user"} : UpdateUserRole(t, r)
    \/ \E t \in Users : DeactivateUser(t)

SpecProfiles == InitProfiles /\ [][NextProfiles]_vars

----------------------------------------------------------------------------
(* Concurrent registrations: each sign-up is a transaction at READ COMMITTED
   whose INSERT INTO auth.users fires handle_new_user; its count sees the
   rows committed before the statement and takes no lock *)

\* the sign-ups in flight
Registering == {txn[p].target : p \in {q \in Procs : txn[q].pc = "inserted"}}

\* handle_new_user runs in the sign-up of u: the role is computed from the
\* committed rows and the new row is written, not yet committed
RegisterInsert(p, u) ==
    /\ txn[p].pc = "idle"
    /\ ~profiles[u].present
    /\ u \notin Registering
    /\ txn' = [txn EXCEPT ![p] =
            [pc |-> "inserted", op |-> "handle_new_user", uid |-> NULL,
             target |-> u, role |-> NewUserRole(profiles), result |-> "true"]]
    /\ UNCHANGED <<profiles, session, last, rows, decision, start, client>>

\* the sign-up commits: its user_profiles row becomes visible
RegisterCommit(p) ==
    LET t == txn[p] IN
    /\ t.pc = "inserted"
    /\ profiles' = [profiles EXCEPT ![t.target] = ActiveProfile(t.role)]
    /\ last' = Call("handle_new_user", t.target, t.role, NULL, "true", 0)
    /\ txn' = [txn EXCEPT ![p] = NoTxn]
    /\ UNCHANGED <<session, rows, decision, start, client>>

\* the system is empty, or u3 has registered before and is its admin
InitRegister ==
    /\ profiles \in
            {EmptyProfiles,
             [EmptyProfiles EXCEPT !["u3"] = ActiveProfile("admin")]}
    /\ session = NULL
    /\ last = NoCall
    /\ rows = NoRows
    /\ decision = NoDecision
    /\ txn = [p \in Procs |-> NoTxn]
    /\ start = profiles
    /\ client = NoClient

NextRegister ==
    \/ \E p \in Procs, u \in Users : RegisterInsert(p, u)
    \/ \E p \in Procs : RegisterCommit(p)

SpecRegister == InitRegister /\ [][NextRegister]_vars

----------------------------------------------------------------------------
(* The client: AuthProvider and ProtectedRoute *)

\* the variables of the data layer, which no step of the client writes
ServerVars == <<profiles, session, last, rows, decision, txn, start>>

\* the accounts that sign in on this browser tab
ClientUsers == {"u1", "u2"}

\* profile fetches in flight at one time
MaxFetches == 2

\* loadUserProfile / refreshProfile: a GET /api/auth/profile in flight;
\* ok: the response will be ok; awaited: the auth-state handler awaits it
Fetches == [uid : ClientUsers, ok : BOOLEAN, awaited : BOOLEAN]

\* ProtectedRoute without the check of the user
ProtectedRouteNoAuth(c, requireAuth, requiredRole, resource, action, fallback) ==
    IF c.loading THEN "loading"
    ELSE IF requiredRole # NULL /\ ~hasRole(c.profile, requiredRole)
    THEN (IF fallback THEN "fallback" ELSE "role_denied")
    ELSE IF resource # NULL /\ ~hasPermission(c.profile, resource, action)
    THEN (IF fallback THEN "fallback" ELSE "permission_denied")
    ELSE "children"

\* what ProtectedRoute returns; redirect_login: <Navigate to="/login"
\* state={{ from: location }} replace />
ProtectedRoute(c, requireAuth, requiredRole, resource, action, fallback) ==
    IF c.loading THEN "loading"
    ELSE IF requireAuth /\ c.user = NULL THEN "redirect_login"
    ELSE IF requiredRole # NULL /\ ~hasRole(c.profile, requiredRole)
    THEN (IF fallback THEN "fallback" ELSE "role_denied")
    ELSE IF resource # NULL /\ ~hasPermission(c.profile, resource, action)
    THEN (IF fallback THEN "fallback" ELSE "permission_denied")
    ELSE "children"

\* loadUserProfile(userId) called: the fetch starts
StartFetch(fs, uid, ok, awaited) ==
    fs \cup {[uid |-> uid, ok |-> ok, awaited |-> awaited]}

\* getSession().then(...): setSession, setUser, loadUserProfile not awaited,
\* setLoading(false); s = NULL: no session, with or without an error
GetSessionResolves(s, ok) ==
    /\ client.getSession = "pending"
    /\ s = NULL => ok
    /\ s # NULL => Cardinality(client.fetches) < MaxFetches
    /\ client' = [client EXCEPT
            !.getSession = "settled",
            !.user = s,
            !.fetches = IF s # NULL THEN StartFetch(@, s, ok, FALSE) ELSE @,
            !.loading = FALSE,
            !.ended = IF s # NULL THEN FALSE ELSE @,
            !.rendered = NoRender]
    /\ UNCHANGED ServerVars

\* getSession() rejects: the promise has no catch, no state is set
GetSessionRejects ==
    /\ client.getSession = "pending"
    /\ client' = [client EXCEPT !.getSession = "settled",
                                !.rendered = NoRender]
    /\ UNCHANGED ServerVars

\* onAuthStateChange handler up to its await: setSession, setUser, then
\* await loadUserProfile, or setProfile(null) and setLoading(false)
AuthStateChange(s, ok) ==
    /\ s = NULL => ok
    /\ s # NULL => Cardinality(client.fetches) < MaxFetches
    /\ client' = [client EXCEPT
            !.user = s,
            !.fetches = IF s # NULL THEN StartFetch(@, s, ok, TRUE) ELSE @,
            !.profile = IF s = NULL THEN NoProfile ELSE @,
            !.loading = IF s = NULL THEN FALSE ELSE @,
            !.ended = IF s # NULL THEN FALSE ELSE @,
            !.rendered = NoRender]
    /\ UNCHANGED ServerVars

\* the fetch of loadUserProfile returns: setProfile(profileData) when the
\* response is ok; the handler that awaited it goes on to setLoading(false)
FetchCompletes(f) ==
    /\ f \in client.fetches
    /\ client' = [client EXCEPT
            !.fetches = @ \ {f},
            !.profile = IF f.ok THEN profiles[f.uid] ELSE @,
            !.loading = IF f.awaited THEN FALSE ELSE @,
            !.rendered = NoRender]
    /\ UNCHANGED ServerVars

\* refreshProfile(): if (user) await loadUserProfile(user.id)
RefreshProfile(ok) ==
    /\ client.user # NULL
    /\ Cardinality(client.fetches) < MaxFetches
    /\ client' = [client EXCEPT
            !.fetches = StartFetch(@, client.user, ok, FALSE),
            !.rendered = NoRender]
    /\ UNCHANGED ServerVars

\* signOut() up to its await of supabase.auth.signOut()
SignOutStarts ==
    /\ client.signOut = "idle"
    /\ client' = [client EXCEPT !.signOut = "awaiting",
                                !.rendered = NoRender]
    /\ UNCHANGED ServerVars

\* signOut() after the await: setUser(null), setSession(null),
\* setProfile(null); thrown: the catch branch, which clears nothing
SignOutReturns(thrown) ==
    /\ client.signOut = "awaiting"
    /\ client' = [client EXCEPT
            !.signOut = "idle",
            !.user = IF thrown THEN @ ELSE NULL,
            !.profile = IF thrown THEN @ ELSE NoProfile,
            !.ended = IF thrown THEN @ ELSE TRUE,
            !.rendered = NoRender]
    /\ UNCHANGED ServerVars

\* a ProtectedRoute is rendered with the provider's current state
Render(requireAuth, requiredRole, resource, action, fallback) ==
    /\ client' = [client EXCEPT !.rendered =
            [requireAuth |-> requireAuth, requiredRole |-> requiredRole,
             resource |-> resource, action |-> action, fallback |-> fallback,
             outcome |-> ProtectedRoute(client, requireAuth, requiredRole,
                                        resource, action, fallback)]]
    /\ UNCHANGED ServerVars

\* the requiredPermission props rendered: none, or a resource and an action
RenderedPermissions ==
    {<<NULL, NULL>>, <<"users", "delete">>, <<"projects", "write">>}

\* u1 is an admin or a deactivated user; u2 is a user, u3 an admin; the
\* provider has just been mounted
InitClient ==
    /\ profiles \in
            {[u \in Users |->
                IF u = "u1" THEN p1
                ELSE IF u = "u2" THEN ActiveProfile("user")
                ELSE ActiveProfile("admin")] :
             p1 \in {ActiveProfile("admin"), InactiveProfile("user")}}
    /\ session = NULL
    /\ last = NoCall
    /\ rows = NoRows
    /\ decision = NoDecision
    /\ txn = [p \in Procs |-> NoTxn]
    /\ start = EmptyProfiles
    /\ client = NoClient

NextClient ==
    \/ \E s \in ClientUsers \cup {NULL}, ok \in BOOLEAN :
            GetSessionResolves(s, ok)
    \/ GetSessionRejects
    \/ \E s \in ClientUsers \cup {NULL}, ok \in BOOLEAN : AuthStateChange(s, ok)
    \/ \E f \in Fetches : FetchCompletes(f)
    \/ \E ok \in BOOLEAN : RefreshProfile(ok)
    \/ SignOutStarts
    \/ \E thrown \in BOOLEAN : SignOutReturns(thrown)
    \/ \E ra \in BOOLEAN, rr \in {NULL, "admin", "user"},
          rp \in RenderedPermissions, fb \in BOOLEAN :
            Render(ra, rr, rp[1], rp[2], fb)

SpecClient == InitClient /\ [][NextClient]_vars

\* a promise that is pending settles, every fetch in flight returns
SpecClientFair ==
    /\ SpecClient
    /\ WF_vars(GetSessionRejects
               \/ \E s \in ClientUsers \cup {NULL}, ok \in BOOLEAN :
                        GetSessionResolves(s, ok))
    /\ \A f \in Fetches : WF_vars(FetchCompletes(f))
    /\ WF_vars(\E thrown \in BOOLEAN : SignOutReturns(thrown))

----------------------------------------------------------------------------
(* Claims about the role management functions *)

RoleCall == {"update_user_role", "deactivate_user"}

\* C1: from a state with at least one active admin, no update_user_role or
\* deactivate_user call, succeeding or raising, leaves zero active admins.
C1_AdminFloor ==
    [][(ActiveAdminCount >= 1 /\ last'.op \in RoleCall)
            => ActiveAdminCount' >= 1]_vars

\* the call just made removes the admin role or the active flag of its target
RemovingCall(c) ==
    \/ c.op = "deactivate_user"
    \/ c.op = "update_user_role" /\ c.role \in Roles \ {"admin"}

\* C2: with exactly two active admins, two concurrent calls that each remove
\* a different one of them do not both succeed, and an active admin remains.
C2_AtomicLastAdminCheck ==
    \A a \in Users : \A b \in Users \ {a} :
        (/\ ActiveAdmins(start) = {a, b}
         /\ RemovingCall(txn["p1"]) /\ txn["p1"].target = a
         /\ RemovingCall(txn["p2"]) /\ txn["p2"].target = b
         /\ \A p \in Procs : txn[p].pc \in {"done", "raised"})
        => (/\ \E p \in Procs : txn[p].pc = "raised"
            /\ ActiveAdminCount >= 1)

\* the sole active admin is the target of a removing call
LastAdminTargeted ==
    /\ ActiveAdminCount = 1
    /\ last'.op \in RoleCall
    /\ RemovingCall(last')
    /\ last'.target \in ActiveAdmins(profiles)

\* C3 as stated: such a call is rejected with the last-administrator error,
\* whoever makes it, and no user_profiles row changes.
C3_LastAdminRejected ==
    [][LastAdminTargeted
            => (last'.result = "last_admin" /\ profiles' = profiles)]_vars

\* C3 amended: made by that admin (the only caller that passes is_admin) the
\* call is rejected with the last-administrator error; made by anyone else it
\* is rejected with the administrators-only error; no row changes either way.
C3_LastAdminRejectedForAdminCaller ==
    [][LastAdminTargeted
            => (/\ profiles' = profiles
                /\ last'.result = IF session \in ActiveAdmins(profiles)
                                  THEN "last_admin" ELSE "not_admin")]_vars

\* the sole active admin asked to turn themself into a user, and was refused
C3_Witness ==
    /\ ActiveAdminCount = 1
    /\ session \in ActiveAdmins(profiles)
    /\ last.op = "update_user_role"
    /\ last.target = session
    /\ last.role = "user"
    /\ last.result = "last_admin"

----------------------------------------------------------------------------
(* Claims about the authorization predicates and the policies *)

\* the session's subject has a profile
Subject == session \in ProfileRows

SubjectRole == profiles[session].role

ActiveAdmin == session \in ActiveAdmins(profiles)

OwnedAndAssignedByOthers ==
    /\ decision.owner \notin {NULL, session}
    /\ decision.assignee \notin {NULL, session}

C5_CanView ==
    (decision.asked /\ Subject /\ profiles[session].active) =>
        /\ (decision.view = T3) <=>
                (\/ session = decision.owner
                 \/ session = decision.assignee
                 \/ SubjectRole \in {"admin", "viewer"}
                 \/ decision.owner = NULL)
        /\ (SubjectRole \in {"user", "guest"} /\ OwnedAndAssignedByOthers)
                => decision.view = F3

\* an active viewer sees a resource owned by and assigned to others
C5_Witness ==
    /\ decision.asked /\ Subject /\ profiles[session].active
    /\ SubjectRole = "viewer"
    /\ OwnedAndAssignedByOthers
    /\ decision.view = T3

\* the session's subject has a profile and is not deactivated
ActiveSubject == Subject /\ profiles[session].active

\* the decision was taken on a row, for an active subject
RowDecision == decision.asked /\ Present(decision.id) /\ ActiveSubject

\* sources, projects, tasks, crawled pages, project sources, document
\* versions, prompts
ProtectedTables == Tables \ {"code_examples"}

\* C6: for a subject who is not an admin, the rows the SELECT policy shows
\* are exactly those for which can_view holds on the row's own owner and
\* assignee.
C6_SelectIsCanView ==
    (/\ RowDecision /\ ~ActiveAdmin
     /\ rows[decision.id].table \in ProtectedTables) =>
        (decision.select <=> decision.view = T3)

\* C7: for a subject who is not an admin, the row-level decisions for DELETE
\* and for UPDATE are the same, and both are can_edit on the row.
C7_DeleteIsUpdateIsCanEdit ==
    (/\ RowDecision /\ ~ActiveAdmin
     /\ rows[decision.id].table \in ProtectedTables) =>
        /\ decision.delete <=> decision.update
        /\ decision.update <=> decision.edit = T3

\* C8: an accepted INSERT carries the session's own id, or null, as owner.
C8_InsertOwnerIsSelfOrNull ==
    [][\A id \in RowIds :
            (ActiveSubject /\ rows[id] = NoRow /\ rows'[id] # NoRow
             /\ rows'[id].table \in ProtectedTables)
            => rows'[id].owner \in {session, NULL}]_vars

\* C9: a guest never gets an edit decision, not even on what they own or are
\* assigned to, and the client grants a guest nothing but read.
C9_GuestNeverEdits ==
    (RowDecision /\ SubjectRole = "guest") =>
        /\ decision.edit # T3
        /\ \A k \in ResourceKinds, act \in Actions \ {"read"} :
                ~hasPermission(profiles[session], k, act)

\* tables of no resource kind on the guest allow-list (knowledge sources,
\* projects)
OutsideGuestAllowList == {"tasks", "document_versions", "prompts"}

\* the client's resource kind of such a table
KindOf(t) == IF t = "document_versions" THEN "documents" ELSE t

\* C10: a guest does not view a null-owner resource of a kind outside the
\* allow-list, in the data layer or in the client.
C10_GuestAllowList ==
    (/\ RowDecision /\ SubjectRole = "guest"
     /\ decision.owner = NULL
     /\ rows[decision.id].table \in OutsideGuestAllowList) =>
        /\ decision.view # T3
        /\ ~decision.select
        /\ ~hasPermission(profiles[session], KindOf(rows[decision.id].table), "read")

----------------------------------------------------------------------------
(* Claims about deactivated subjects and about the client's helpers *)

\* the profile the client has loaded for the session's subject
LoadedProfile == profiles[session]

\* C11: user_can_view does not look at is_active: whatever the active flag,
\* it is true exactly for the owner, the assignee, the stored roles admin and
\* viewer, and a null owner; so a deactivated viewer views another subject's
\* resource.
C11_CanViewIgnoresActive ==
    (decision.asked /\ Subject) =>
        /\ (decision.view = T3) <=>
                (\/ session = decision.owner
                 \/ session = decision.assignee
                 \/ SubjectRole \in {"admin", "viewer"}
                 \/ decision.owner = NULL)
        /\ (/\ ~profiles[session].active
            /\ SubjectRole = "viewer"
            /\ decision.owner \notin {NULL, session}) => decision.view = T3

\* C12: a deactivated subject whose stored role is admin has no admin rights:
\* is_admin() is false, and so are the client's isAdmin(), hasRole('admin')
\* and every hasPermission that the stored role alone would grant.
C12_InactiveNeverAdmin ==
    (/\ decision.asked /\ Subject
     /\ ~profiles[session].active
     /\ SubjectRole = "admin") =>
        /\ decision.admin # T3
        /\ ~isAdmin(LoadedProfile)
        /\ ~hasRole(LoadedProfile, "admin")
        /\ \A k \in ResourceKinds : ~hasPermission(LoadedProfile, k, "delete")

\* C14: the client's hasPermission agrees with the data layer: 'read' with
\* user_can_view, 'write' and 'delete' with user_can_edit, for every resource
\* kind.
C14_ClientAgreesWithDataLayer ==
    (decision.asked /\ ActiveSubject /\ SubjectRole \in Roles) =>
        \A k \in ResourceKinds :
            /\ hasPermission(LoadedProfile, k, "read") <=> decision.view = T3
            /\ hasPermission(LoadedProfile, k, "write") <=> decision.edit = T3
            /\ hasPermission(LoadedProfile, k, "delete") <=> decision.edit = T3

\* C13: once deactivate_user has deactivated a subject, no later request of
\* that subject gets a true view or edit decision, not even on a resource the
\* subject owns or is assigned to.
C13_DeactivatedIsDenied ==
    (decision.asked /\ Subject /\ ~profiles[session].active) =>
        (decision.view # T3 /\ decision.edit # T3)

----------------------------------------------------------------------------
(* Claims about the admin-only functions, the transfer and the registration *)

AdminOnlyCall == {"update_user_role", "deactivate_user", "transfer_user_data"}

\* C15: update_user_role, deactivate_user and transfer_user_data called by a
\* subject who is not an active admin raise the administrators-only error
\* and change no role, no active flag and no owner.
C15_AdminOnlyMutations ==
    [][(last'.op \in AdminOnlyCall /\ session \notin ActiveAdmins(profiles))
            => (/\ last'.result = "not_admin"
                /\ profiles' = profiles
                /\ rows' = rows)]_vars

\* a deactivated admin asked for a transfer of rows that exist, and was refused
C15_Witness ==
    /\ Subject /\ SubjectRole = "admin" /\ ~profiles[session].active
    /\ last.op = "transfer_user_data"
    /\ last.moved > 0
    /\ last.target # last.to
    /\ last.result = "not_admin"

C19_FirstAdminThenUsers ==
    [][last'.op = "handle_new_user" =>
            /\ profiles'[last'.target].present
            /\ profiles'[last'.target].active
            /\ profiles'[last'.target].role =
                    IF ProfileRows = {} THEN "admin" ELSE "user"
            /\ \A u \in Users \ {last'.target} : profiles'[u] = profiles[u]]_vars

\* the third subject has just registered, as a user
C19_Witness ==
    /\ last.op = "handle_new_user"
    /\ ProfileRows = Users
    /\ profiles[last.target].role = "user"

\* C20: update_user_role repeated with the same target and role right after
\* itself changes no role, no active flag and no owner.
C20_UpdateUserRoleIdempotent ==
    [][(last'.op = "update_user_role" /\ last'.again)
            => (profiles' = profiles /\ rows' = rows)]_vars

\* the same successful role change was applied a second time
C20_Witness ==
    /\ last.op = "update_user_role"
    /\ last.again
    /\ last.result = "true"
    /\ last.target \in ProfileRows
    /\ profiles[last.target].role = last.role
    /\ Present(1)

----------------------------------------------------------------------------
(* Claims about the owner copies and about a subject's own profile row *)

SyncedChildTables == {"crawled_pages", "tasks", "project_sources"}

\* C17: when the owner of a source or of a project changes, every crawled
\* page, task and project-source link below it carries the new owner, a task
\* with an assignee included.
C17_OwnerCopiesInSync ==
    [][\A id \in RowIds :
            (/\ Present(id)
             /\ rows[id].table \in {"sources", "projects"}
             /\ rows'[id].table = rows[id].table
             /\ rows'[id].owner # rows[id].owner)
            => \A c \in RowIds :
                    (rows'[c].parent = id
                     /\ rows'[c].table \in SyncedChildTables)
                    => rows'[c].owner = rows'[id].owner]_vars

\* C18: the role of a registered subject changes only in a step taken by an
\* active admin; an UPDATE of one's own row that alters the role, by anyone
\* else, is rejected and changes nothing.
C18_NoSelfRoleChange ==
    [][/\ \A u \in Users :
            (profiles[u].present /\ profiles'[u].role # profiles[u].role)
                => session \in ActiveAdmins(profiles)
       /\ (/\ last'.op = "update_profile"
           /\ last'.target = session
           /\ session \in ProfileRows
           /\ session \notin ActiveAdmins(profiles)
           /\ last'.role # profiles[session].role)
                => (last'.result = "check_violation"
                    /\ profiles' = profiles)]_vars

\* a user asked to become an admin through their own row, and was refused
C18_Witness ==
    /\ Subject /\ SubjectRole = "user" /\ profiles[session].active
    /\ last.op = "update_profile"
    /\ last.target = session
    /\ last.role = "admin"
    /\ last.result = "check_violation"

----------------------------------------------------------------------------
(* Claims about the client *)

\* a ProtectedRoute has been rendered with the provider's current state
Rendered == client.rendered.outcome # "none"

\* C21: while no profile is loaded hasRole and hasPermission are false for
\* every argument; with a profile of role admin hasPermission is true for
\* every resource and action.
C21_NoProfileNothingAdminEverything ==
    /\ ~client.profile.present =>
            /\ \A r \in Roles : ~hasRole(client.profile, r)
            /\ \A k \in ResourceKinds, a \in Actions :
                    ~hasPermission(client.profile, k, a)
    /\ (client.profile.present /\ client.profile.role = "admin") =>
            \A k \in ResourceKinds, a \in Actions :
                hasPermission(client.profile, k, a)

\* an admin's profile is loaded and a route that requires the permission to
\* delete users rendered its children
C21_Witness ==
    /\ client.profile.present
    /\ client.profile.role = "admin"
    /\ client.rendered.resource = "users"
    /\ client.rendered.action = "delete"
    /\ client.rendered.outcome = "children"

\* C22: a profile of role user has read and write permission on projects and
\* no permission on the resource kind users.
C22_UserPermissions ==
    (client.profile.present /\ client.profile.role = "user") =>
        /\ hasPermission(client.profile, "projects", "read")
        /\ hasPermission(client.profile, "projects", "write")
        /\ \A a \in Actions : ~hasPermission(client.profile, "users", a)

C24_DeactivatedAccountDenied ==
    (/\ Rendered
     /\ ~client.loading
     /\ client.user # NULL
     /\ client.profile.present
     /\ ~client.profile.active) =>
        client.rendered.outcome = "account_deactivated"

\* C25: after AuthProvider starts, loading eventually becomes false, also
\* when the initial getSession call rejects.
C25_LoadingEventuallyFalse == <>(client.loading = FALSE)

\* the profile fetch of the authenticated user is in flight and will succeed
FetchWillSucceed ==
    \E f \in client.fetches : f.uid = client.user /\ f.ok

\* C29: whenever loading is false and a user is authenticated whose profile
\* fetch will succeed, the profile is loaded; a ProtectedRoute with a required
\* role never renders the insufficient-role denial for a subject whose stored
\* role is the required role.
C29_ProfileLoadedWhenLoadingEnds ==
    /\ (~client.loading /\ client.user # NULL /\ FetchWillSucceed)
            => client.profile.present
    /\ (/\ client.rendered.outcome = "role_denied"
        /\ client.user # NULL
        /\ FetchWillSucceed)
            => profiles[client.user].role # client.rendered.requiredRole

\* C30: a loaded profile implies an authenticated user, and after signOut has
\* returned no event of the ended session sets the profile again.
C30_ProfileImpliesUser ==
    /\ client.profile.present => client.user # NULL
    /\ ~(client.ended /\ client.profile.present)

----------------------------------------------------------------------------
(* Claims about the last-administrator error, the transfer's frame and
   concurrent registrations *)

\* C26: update_user_role raises the last-administrator error only when the
\* change would leave no active admin; demoting an inactive subject with
\* stored role admin while one active admin exists is not refused.
C26_LastAdminErrorOnlyAtZero ==
    [][(last'.op = "update_user_role" /\ last'.result = "last_admin")
            => ActiveAdmins(SetRole(profiles, last'.target, last'.role)) = {}]_vars

\* C27: a successful transfer_user_data(A, B) leaves the owner of every
\* resource that a subject other than A owned before the call as it was, the
\* rows written by the owner-sync triggers included.
C27_TransferFrame ==
    [][(last'.op = "transfer_user_data" /\ ~Raised(last'.result))
            => \A id \in RowIds :
                    (Present(id) /\ rows[id].owner \notin {last'.target, NULL})
                        => rows'[id].owner = rows[id].owner]_vars

\* the subjects that handle_new_user has given role admin
Admins == {u \in Users : profiles[u].present /\ profiles[u].role = "admin"}

\* C28: when two or more subjects have registered into a system that was
\* empty, in any interleaving of their sign-ups, exactly one of them has role
\* admin and the others have role user.
C28_ExactlyOneFirstAdmin ==
    (start = EmptyProfiles /\ Cardinality(ProfileRows) >= 2) =>
        /\ Cardinality(Admins) = 1
        /\ \A u \in ProfileRows \ Admins : profiles[u].role = "user"

====
